---- MODULE Spec2Model ----
(***************************************************************************)
(* Capture pipeline of the Basic Network Sniffer                           *)
(* (src/BNS/network_sniffer.py, class NetworkSniffer; the simulated        *)
(* DemoNetworkSniffer of src/BNS/demo_sniffer.py has the same fields and   *)
(* the same packet_callback / start_capture / stop_capture /               *)
(* clear_packets bodies).                                                  *)
(*                                                                         *)
(* The session object is shared by                                         *)
(*   - caller tasks (the CLI loop, the web request handlers) that run      *)
(*     start_capture, stop_capture and clear_packets,                      *)
(*   - the capture threads spawned by start_capture, each running          *)
(*     sniff(prn=packet_callback, stop_filter=not is_capturing),           *)
(*   - a reader task that runs get_recent_packets and get_packet_stats,    *)
(*     and                                                                 *)
(*   - the live-consumer loops (background_packet_emitter of               *)
(*     src/BNS/demo_app.py) that drain packet_queue.                       *)
(* Spec runs the callers and the capture threads; SpecQuery runs the       *)
(* reader on a session at rest, SpecSnapshot the reader and SpecFanout     *)
(* the consumer loops beside a running capture.  SpecLive is a run of      *)
(* the command line (src/BNS/cli_sniffer.py, live_capture), SpecExport     *)
(* runs export_packets on a session at rest, and SpecClassify applies      *)
(* analyze_packet and generate_demo_packet to every input.  SpecService    *)
(* is the web application (src/BNS/demo_app.py): one request handler,      *)
(* the capture threads and the one emitter loop; SpecServiceFair adds      *)
(* that the loop keeps being scheduled.                                    *)
(* No lock protects the session, so every attribute read or write is a     *)
(* step of its own and the steps of different tasks interleave.            *)
(***************************************************************************)
EXTENDS Integers, Sequences, FiniteSets, TLC

\* ------------------------------------------------------------- bounds ----
\* Capacity of the history: the literal 1000 of packet_callback, scaled down.
Capacity == 1
\* Number of frames the packet source yields in one behaviour.
MaxFrames == 2
\* Number of capture threads that can be spawned in one behaviour.
MaxThreads == 2
\* Number of calls the caller tasks make in one behaviour.
MaxCalls == 3
\* Number of entries kept in top_ips and top_ports: the literal 10 of the
\* [:10] slices of get_packet_stats, scaled down.
TopN == 2
\* Length of the histories the reader task is run on.
MaxHistory == 4
\* Number of get_packet_stats calls the reader task makes in one behaviour.
MaxReads == 2

Callers == {"cli", "web"}
\* threads running background_packet_emitter on the session's queue
Consumers == {"viewer1", "viewer2"}
Threads == 1..MaxThreads
\* (interface, filter) pairs the callers pass to start_capture
Requests == {<<"eth0", "">>, <<"wlan0", "tcp">>}
None == "None"
\* a thread outside packet_callback holds no packet_info
NoInfo == [timestamp |-> 0, summary |-> 0]
\* a caller outside start_capture holds no arguments
NoRequest == <<None, "">>
\* self.capture_thread = None
NoThread == 0
\* 'src_port': None
NoPort == -1
\* cli_sniffer.py:215-220: --max-packets is an int whose default, 1000, is
\* the number written in packet_callback
DefaultMaxPackets == Capacity
\* the values of --max-packets of the runs explored: the default and less
MaxPacketsOptions == 0..DefaultMaxPackets
\* packet_info of the frames a capture has stored: a TCP, a UDP, an ARP
\* and an unclassified frame, with the fields get_packet_stats reads
Infos == {
    [protocol |-> "TCP", src_ip |-> "10.0.0.1", src_port |-> 80],
    [protocol |-> "TCP", src_ip |-> "10.0.0.2", src_port |-> 443],
    [protocol |-> "UDP", src_ip |-> "10.0.0.3", src_port |-> 53],
    [protocol |-> "UDP", src_ip |-> "10.0.0.2", src_port |-> 0],
    [protocol |-> "ARP", src_ip |-> "10.0.0.1", src_port |-> NoPort],
    [protocol |-> "Unknown", src_ip |-> "Unknown", src_port |-> NoPort] }

VARIABLES
    \* NetworkSniffer fields
    packets,         \* self.packets: the history, oldest first
    packet_queue,    \* self.packet_queue: the fan-out queue
    is_capturing,    \* self.is_capturing
    capture_thread,  \* self.capture_thread: None or a thread
    packet_count,    \* self.packet_count
    interface,       \* self.interface
    filter,          \* self.filter
    \* capture threads
    tpc,             \* position of each capture thread
    tinfo,           \* packet_info held by a thread inside packet_callback
    tcount,          \* value of packet_count read by "packet_count += 1"
    \* caller tasks
    pc,              \* position of each caller task
    arg,             \* arguments of the start_capture call in progress
    ev,              \* the call that returned or the way a thread ended in
                     \* the step just taken (observer)
    \* packet source
    nframes,         \* frames yielded so far
    ncalls,          \* calls made so far
    \* history variables (observers, never read by the program)
    log,             \* records appended since the last packets.clear()
    ovl,             \* kinds of calls of other tasks that wrote the session
                     \* while the caller's call was running
    busy,            \* a delivery ran while the caller's clear() was running
    \* reader task (get_recent_packets, get_packet_stats)
    rpc,             \* position of the reader task
    ridx,            \* index of the list iterator of "for packet in self.packets"
    protocols,       \* local dict protocols of get_packet_stats
    ips,             \* local dict ips
    ports,           \* local dict ports
    results,         \* values returned by the get_packet_stats calls made so
                     \* far (observer)
    seen,            \* contents the history had at some instant of the
                     \* get_packet_stats call in progress (observer)
    \* live-consumer loops (background_packet_emitter)
    epc,             \* position of each loop
    epacket,         \* packet taken from the queue and not yet emitted
    received,        \* packets each loop has emitted to its live view
    \* command line
    max_packets      \* value of the --max-packets option of the CLI run

session == <<packets, packet_queue, is_capturing, capture_thread,
             packet_count, interface, filter>>
reader == <<rpc, ridx, protocols, ips, ports, results>>
emitter == <<epc, epacket, received>>
vars == <<packets, packet_queue, is_capturing, capture_thread, packet_count,
          interface, filter, tpc, tinfo, tcount, pc, arg, ev, nframes,
          ncalls, log, ovl, busy, max_packets, reader, seen, emitter>>

\* ---------------------------------------------------------- positions ----
StartPcs == {"start_flag", "start_count", "start_spawn"}
StopPcs == {"stop_thread", "stop_join"}
ClearPcs == {"clear_count"}
\* thread positions inside packet_callback after the record was appended
DeliveryPcs == {"cb_put", "cb_read", "cb_write", "cb_len", "cb_pop"}
\* thread positions inside packet_callback past the is_capturing test
CallbackPcs == {"cb_append"} \cup DeliveryPcs
\* how a capture thread ended
Terminal == {"open_failed", "source_error", "callback_error", "stopped"}

Alive(t) == tpc[t] \notin ({"unborn"} \cup Terminal)
Unborn == {t \in Threads : tpc[t] = "unborn"}
Running == {t \in Threads : Alive(t)}
\* threads are numbered in the order in which they are created
NextThread == CHOOSE t \in Unborn : \A u \in Unborn : t <= u

\* ------------------------------------------------------ pure functions ----
\* analyze_packet: the record made from frame number n of the source.
analyze_packet(n) == [timestamp |-> n, summary |-> n]

\* Python slice s[start:] with a start that may be negative or too large.
SliceFrom(s, start) ==
    LET len == Len(s)
        from0 == IF start < 0
                 THEN (IF len + start < 0 THEN 0 ELSE len + start)
                 ELSE (IF start > len THEN len ELSE start)
    IN  SubSeq(s, from0 + 1, len)

\* a get_recent_packets that slices from the front: self.packets[:count]
get_first_packets(count) ==
    IF packets = <<>> THEN <<>>
    ELSE SubSeq(packets, 1, IF count > Len(packets) THEN Len(packets) ELSE count)

\* get_recent_packets(count): self.packets[-count:] if self.packets else []
get_recent_packets(count) ==
    IF packets = <<>> THEN <<>> ELSE SliceFrom(packets, 0 - count)

\* the last n elements of s (all of s when it is shorter)
LastN(s, n) == IF Len(s) <= n THEN s ELSE SubSeq(s, Len(s) - n + 1, Len(s))

\* ------------------------------------------------------ analyze_packet ----
\* A frame as scapy hands it to analyze_packet: the layers it holds and, when
\* it has an IP layer, the protocol number of the IP header.  Every
\* combination of layers is a frame (a tunnel or an ICMP error carries
\* layers inside layers); the number is written as its digits: IGMP, and the
\* TCP and UDP of a fragment, which has no TCP or UDP layer of its own.
Layers == {"Ether", "IP", "TCP", "UDP", "ICMP", "ARP"}
IPProtos == {"2", "6", "17"}
NoProto == "0"
Frames ==
    {f \in [layers : SUBSET Layers, proto : IPProtos \cup {NoProto}] :
        f.proto = NoProto <=> "IP" \notin f.layers}

\* the values of the fields analyze_packet reads, one value for each field
Fields ==
    [IP    |-> [src |-> "192.168.1.10", dst |-> "10.0.0.1"],
     TCP   |-> [sport |-> 51000, dport |-> 443, flags |-> "SA"],
     UDP   |-> [sport |-> 5353, dport |-> 53],
     ICMP  |-> [type |-> 8, code |-> 0],
     ARP   |-> [psrc |-> "192.168.1.20", pdst |-> "192.168.1.1",
                hwsrc |-> "aa:aa:aa:aa:aa:20", hwdst |-> "00:00:00:00:00:00"],
     Ether |-> [src |-> "aa:aa:aa:aa:aa:10", dst |-> "ff:ff:ff:ff:ff:ff"]]

\* packet_info[key] = value
Put(packet, key, value) ==
    [k \in DOMAIN packet \cup {key} |-> IF k = key THEN value ELSE packet[k]]

\* network_sniffer.py:153-164: the dict analyze_packet starts from, without
\* timestamp, length, payload and summary, which no branch below depends on
DefaultInfo ==
    [protocol |-> "Unknown", src_ip |-> "Unknown", dst_ip |-> "Unknown",
     src_port |-> NoPort, dst_port |-> NoPort, flags |-> None]

\* an analysis that tests for UDP before TCP
analyze_ip_udp_first(info, f) ==
    LET ip == [info EXCEPT !.src_ip = Fields.IP.src,
                           !.dst_ip = Fields.IP.dst,
                           !.protocol = f.proto]
    IN  IF "UDP" \in f.layers
        THEN [ip EXCEPT !.src_port = Fields.UDP.sport,
                        !.dst_port = Fields.UDP.dport,
                        !.protocol = "UDP"]
        ELSE IF "TCP" \in f.layers
        THEN [ip EXCEPT !.src_port = Fields.TCP.sport,
                        !.dst_port = Fields.TCP.dport,
                        !.flags = Fields.TCP.flags,
                        !.protocol = "TCP"]
        ELSE IF "ICMP" \in f.layers
        THEN Put(Put([ip EXCEPT !.protocol = "ICMP"],
                     "icmp_type", Fields.ICMP.type),
                 "icmp_code", Fields.ICMP.code)
        ELSE ip

\* an analysis that stores the ICMP type and code in the port fields
analyze_ip_icmp_ports(info, f) ==
    LET ip == [info EXCEPT !.src_ip = Fields.IP.src,
                           !.dst_ip = Fields.IP.dst,
                           !.protocol = f.proto]
    IN  IF "TCP" \in f.layers
        THEN [ip EXCEPT !.src_port = Fields.TCP.sport,
                        !.dst_port = Fields.TCP.dport,
                        !.flags = Fields.TCP.flags,
                        !.protocol = "TCP"]
        ELSE IF "UDP" \in f.layers
        THEN [ip EXCEPT !.src_port = Fields.UDP.sport,
                        !.dst_port = Fields.UDP.dport,
                        !.protocol = "UDP"]
        ELSE IF "ICMP" \in f.layers
        THEN [ip EXCEPT !.src_port = Fields.ICMP.type,
                        !.dst_port = Fields.ICMP.code,
                        !.protocol = "ICMP"]
        ELSE ip

\* network_sniffer.py:168-198, the body of "if IP in packet": the addresses
\* and the protocol number of the IP header, then "if TCP in packet ...
\* elif UDP in packet ... elif ICMP in packet"
analyze_ip(info, f) ==
    LET ip == [info EXCEPT !.src_ip = Fields.IP.src,
                           !.dst_ip = Fields.IP.dst,
                           !.protocol = f.proto]
    IN  IF "TCP" \in f.layers
        THEN [ip EXCEPT !.src_port = Fields.TCP.sport,
                        !.dst_port = Fields.TCP.dport,
                        !.flags = Fields.TCP.flags,
                        !.protocol = "TCP"]
        ELSE IF "UDP" \in f.layers
        THEN [ip EXCEPT !.src_port = Fields.UDP.sport,
                        !.dst_port = Fields.UDP.dport,
                        !.protocol = "UDP"]
        ELSE IF "ICMP" \in f.layers
        THEN Put(Put([ip EXCEPT !.protocol = "ICMP"],
                     "icmp_type", Fields.ICMP.type),
                 "icmp_code", Fields.ICMP.code)
        ELSE ip

\* network_sniffer.py:202-206, the body of "elif ARP in packet"
analyze_arp(info) ==
    Put(Put([info EXCEPT !.protocol = "ARP",
                         !.src_ip = Fields.ARP.psrc,
                         !.dst_ip = Fields.ARP.pdst],
            "src_mac", Fields.ARP.hwsrc),
        "dst_mac", Fields.ARP.hwdst)

\* network_sniffer.py:151-213, analyze_packet on frame f: "if IP in packet
\* ... elif ARP in packet", then "if Ether in packet"
analyze_layers(f) ==
    LET info == IF "IP" \in f.layers THEN analyze_ip(DefaultInfo, f)
                ELSE IF "ARP" \in f.layers THEN analyze_arp(DefaultInfo)
                ELSE DefaultInfo
    IN  IF "Ether" \in f.layers
        THEN Put(Put(info, "src_mac", Fields.Ether.src),
                 "dst_mac", Fields.Ether.dst)
        ELSE info

\* ------------------------------------------------ generate_demo_packet ----
\* demo_sniffer.py:39: protocols
DemoProtocols == {"TCP", "UDP", "ICMP", "HTTP", "HTTPS", "DNS"}
\* demo_sniffer.py:58: the flags random.choice draws from
DemoFlags == {"SYN", "ACK", "FIN", "RST"}
\* demo_sniffer.py:43-44, 47-48: the draws of random.randint, both ends of
\* each range
DemoDraws ==
    [src_host : {1, 254}, dst_host : {1, 254},
     src_port : {1024, 65535}, dst_port : {1, 1024}]

\* demo_sniffer.py:43-44: f"192.168.1.{n}" and f"10.0.0.{n}"
DemoAddress(prefix, n) == <<prefix, n>>

\* demo_sniffer.py:37-63, generate_demo_packet with the values its random
\* calls drew, without timestamp, length, payload and summary
generate_demo_packet(protocol, draw, flag) ==
    [protocol |-> protocol,
     src_ip   |-> DemoAddress("192.168.1.", draw.src_host),
     dst_ip   |-> DemoAddress("10.0.0.", draw.dst_host),
     src_port |-> IF protocol \in {"TCP", "UDP"} THEN draw.src_port
                  ELSE NoPort,
     dst_port |-> IF protocol \in {"TCP", "UDP"} THEN draw.dst_port
                  ELSE NoPort,
     flags    |-> IF protocol = "TCP" THEN flag ELSE None]

\* ---------------------------------------------------- get_packet_stats ----
\* packet.get(key, default)
Get(packet, key, default) ==
    IF key \in DOMAIN packet THEN packet[key] ELSE default

\* A dict is a sequence of <<key, value>> pairs in insertion order.
DictKeys(d) == {d[i][1] : i \in DOMAIN d}
\* d.get(k, default)
DictGet(d, k, default) ==
    IF k \in DictKeys(d)
    THEN d[CHOOSE i \in DOMAIN d : d[i][1] = k][2]
    ELSE default
\* d[k] = d.get(k, 0) + 1: a new key goes behind the keys already there
DictCount(d, k) ==
    IF k \in DictKeys(d)
    THEN [i \in DOMAIN d |-> IF d[i][1] = k THEN <<k, d[i][2] + 1>> ELSE d[i]]
    ELSE Append(d, <<k, 1>>)

\* "if src_port:": None and 0 are false
Truthy(port) == port # NoPort /\ port # 0

\* a loop body that leaves the records without a protocol tag out of the
\* protocol table
TallySkipsUnknown(acc, packet) ==
    LET protocol == Get(packet, "protocol", "Unknown")
        src_ip == Get(packet, "src_ip", "Unknown")
        src_port == Get(packet, "src_port", NoPort)
    IN  [protocols |-> IF protocol # "Unknown"
                       THEN DictCount(acc.protocols, protocol)
                       ELSE acc.protocols,
         ips |-> IF src_ip # "Unknown"
                 THEN DictCount(acc.ips, src_ip) ELSE acc.ips,
         ports |-> IF Truthy(src_port)
                   THEN DictCount(acc.ports, src_port) ELSE acc.ports]

\* network_sniffer.py:258-270, the body of "for packet in self.packets"
TallyPacket(acc, packet) ==
    LET protocol == Get(packet, "protocol", "Unknown")
        src_ip == Get(packet, "src_ip", "Unknown")
        src_port == Get(packet, "src_port", NoPort)
    IN  [protocols |-> DictCount(acc.protocols, protocol),
         ips |-> IF src_ip # "Unknown"
                 THEN DictCount(acc.ips, src_ip) ELSE acc.ips,
         ports |-> IF Truthy(src_port)
                   THEN DictCount(acc.ports, src_port) ELSE acc.ports]

\* sorted(items, key=lambda x: x[1], reverse=True): descending by count;
\* the sort is stable, so items of equal count keep their order
\* a sort that puts an item before the items of equal count
RECURSIVE InsertBeforeEqual(_, _)
InsertBeforeEqual(s, x) ==
    IF s = <<>> THEN <<x>>
    ELSE IF Head(s)[2] > x[2] THEN <<Head(s)>> \o InsertBeforeEqual(Tail(s), x)
    ELSE <<x>> \o s

RECURSIVE InsertByCount(_, _)
InsertByCount(s, x) ==
    IF s = <<>> THEN <<x>>
    ELSE IF Head(s)[2] >= x[2] THEN <<Head(s)>> \o InsertByCount(Tail(s), x)
    ELSE <<x>> \o s
RECURSIVE SortedByCount(_)
SortedByCount(items) ==
    IF items = <<>> THEN <<>>
    ELSE InsertByCount(SortedByCount(SubSeq(items, 1, Len(items) - 1)),
                       items[Len(items)])

\* Python slice s[:n], n >= 0
SliceTo(s, n) == SubSeq(s, 1, IF Len(s) < n THEN Len(s) ELSE n)

\* network_sniffer.py:251: return {}
EmptyDict == <<>>
\* network_sniffer.py:272-277: the dict get_packet_stats returns
StatsDict(total, acc) ==
    [total_packets |-> total,
     protocols |-> acc.protocols,
     top_ips |-> SliceTo(SortedByCount(acc.ips), TopN),
     top_ports |-> SliceTo(SortedByCount(acc.ports), TopN)]

\* the three dicts after the loop has run over the list h
NoTally == [protocols |-> <<>>, ips |-> <<>>, ports |-> <<>>]
RECURSIVE Tally(_)
Tally(h) ==
    IF h = <<>> THEN NoTally
    ELSE TallyPacket(Tally(SubSeq(h, 1, Len(h) - 1)), h[Len(h)])

\* what get_packet_stats returns for a list h that no other task changes
\* during the call
Aggregate(h) ==
    IF h = <<>> THEN EmptyDict ELSE StatsDict(Len(h), Tally(h))

\* ------------------------------------------------------------- events ----
\* ev names what the step just taken completed: a call of a caller task
\* with its return value, or the end of a capture thread.
NoEvent == [call |-> "none", result |-> "none", by |-> "none",
            req |-> NoRequest, ovl |-> {}, busy |-> FALSE]
Returned(call, result, c) ==
    [call |-> call, result |-> result, by |-> c,
     req |-> arg[c], ovl |-> ovl[c], busy |-> busy[c]]
Ended(how) == [NoEvent EXCEPT !.call = how]
\* a call of the reader task returned
Answered(call, args, result) ==
    [NoEvent EXCEPT !.call = call, !.req = args, !.result = result]

\* --------------------------------------------------------------- Init ----
\* the reader task has made no call
InitReader ==
    /\ rpc = "idle"
    /\ ridx = 0
    /\ protocols = <<>>
    /\ ips = <<>>
    /\ ports = <<>>
    /\ results = <<>>
    /\ seen = {}

\* every live-consumer loop is at the top of "while True"
InitEmitter ==
    /\ epc = [e \in Consumers |-> "em_test"]
    /\ epacket = [e \in Consumers |-> NoInfo]
    /\ received = [e \in Consumers |-> <<>>]

Init ==
    /\ packets = <<>>
    /\ packet_queue = <<>>
    /\ is_capturing = FALSE
    /\ capture_thread = NoThread
    /\ packet_count = 0
    /\ interface = None
    /\ filter = ""
    /\ tpc = [t \in Threads |-> "unborn"]
    /\ tinfo = [t \in Threads |-> NoInfo]
    /\ tcount = [t \in Threads |-> 0]
    /\ pc = [c \in Callers |-> "idle"]
    /\ arg = [c \in Callers |-> NoRequest]
    /\ ev = NoEvent
    /\ nframes = 0
    /\ ncalls = 0
    /\ log = <<>>
    /\ ovl = [c \in Callers |-> {}]
    /\ busy = [c \in Callers |-> FALSE]
    /\ InitReader
    /\ InitEmitter
    /\ max_packets = DefaultMaxPackets

\* --------------------------------------------- bookkeeping of observers ----
\* caller c, inside a call of kind k, writes a field of the session: every
\* other caller that is inside a call has been overlapped by a call of kind k
OvlMark(c, k) ==
    ovl' = [d \in Callers |->
              IF d # c /\ pc[d] # "idle" THEN ovl[d] \cup {k} ELSE ovl[d]]
\* the same, in the step in which caller c returns
OvlMarkEnd(c, k) ==
    ovl' = [d \in Callers |->
              IF d = c THEN {}
              ELSE IF pc[d] # "idle" THEN ovl[d] \cup {k} ELSE ovl[d]]
OvlEnd(c) == ovl' = [ovl EXCEPT ![c] = {}]

\* a step changes the history: the new contents are contents the history
\* had during the get_packet_stats call in progress
Snap == seen' = IF rpc = "idle" THEN seen ELSE seen \cup {packets'}

\* a capture thread takes a step inside packet_callback
MarkBusy == busy' = [d \in Callers |-> busy[d] \/ pc[d] = "clear_count"]

\* -------------------------------------------------------- start_capture ----
\* a start_capture that resets the counter before it tests is_capturing
StartRejectedAfterReset(c) ==
    /\ pc[c] = "idle"
    /\ ncalls < MaxCalls
    /\ is_capturing
    /\ ncalls' = ncalls + 1
    /\ packet_count' = 0
    /\ ev' = Returned("start", "False", c)
    /\ UNCHANGED <<packets, packet_queue, is_capturing, capture_thread,
                   interface, filter, tpc, tinfo, tcount, pc, arg, nframes,
                   log, ovl, busy>>
    /\ UNCHANGED <<reader, seen, emitter, max_packets>>

\* network_sniffer.py:217-218: "if self.is_capturing: return False"
StartRejected(c) ==
    /\ pc[c] = "idle"
    /\ ncalls < MaxCalls
    /\ is_capturing
    /\ ncalls' = ncalls + 1
    /\ ev' = Returned("start", "False", c)
    /\ UNCHANGED <<session, tpc, tinfo, tcount, pc, arg, nframes,
                   log, ovl, busy>>
    /\ UNCHANGED <<reader, seen, emitter, max_packets>>

\* network_sniffer.py:217-221: the test passes; self.interface = interface;
\* self.filter = filter_str (no step of the program reads these two fields)
StartAccepted(c) ==
    /\ pc[c] = "idle"
    /\ ncalls < MaxCalls
    /\ ~is_capturing
    \* a thread is left for this call to spawn
    /\ Cardinality(Unborn) > Cardinality({d \in Callers : pc[d] \in StartPcs})
    /\ \E r \in Requests :
          /\ arg' = [arg EXCEPT ![c] = r]
          /\ interface' = r[1]
          /\ filter' = r[2]
    /\ ncalls' = ncalls + 1
    /\ pc' = [pc EXCEPT ![c] = "start_flag"]
    /\ ev' = NoEvent
    /\ OvlMark(c, "start")
    /\ UNCHANGED <<packets, packet_queue, is_capturing, capture_thread,
                   packet_count, tpc, tinfo, tcount, nframes, log, busy>>
    /\ UNCHANGED <<reader, seen, emitter, max_packets>>

\* network_sniffer.py:222: self.is_capturing = True
StartSetFlag(c) ==
    /\ pc[c] = "start_flag"
    /\ is_capturing' = TRUE
    /\ pc' = [pc EXCEPT ![c] = "start_count"]
    /\ ev' = NoEvent
    /\ OvlMark(c, "start")
    /\ UNCHANGED <<packets, packet_queue, capture_thread, packet_count,
                   interface, filter, tpc, tinfo, tcount, arg,
                   nframes, ncalls, log, busy>>
    /\ UNCHANGED <<reader, seen, emitter, max_packets>>

\* a start_capture that begins the new capture with an empty history
StartResetsHistory(c) ==
    /\ pc[c] = "start_count"
    /\ packet_count' = 0
    /\ packets' = <<>>
    /\ pc' = [pc EXCEPT ![c] = "start_spawn"]
    /\ ev' = NoEvent
    /\ OvlMark(c, "start")
    /\ UNCHANGED <<packet_queue, is_capturing, capture_thread,
                   interface, filter, tpc, tinfo, tcount, arg,
                   nframes, ncalls, log, busy>>
    /\ UNCHANGED <<reader, seen, emitter, max_packets>>

\* network_sniffer.py:223: self.packet_count = 0
StartResetCount(c) ==
    /\ pc[c] = "start_count"
    /\ packet_count' = 0
    /\ pc' = [pc EXCEPT ![c] = "start_spawn"]
    /\ ev' = NoEvent
    /\ OvlMark(c, "start")
    /\ UNCHANGED <<packets, packet_queue, is_capturing, capture_thread,
                   interface, filter, tpc, tinfo, tcount, arg,
                   nframes, ncalls, log, busy>>
    /\ UNCHANGED <<reader, seen, emitter, max_packets>>

\* network_sniffer.py:237-239: the thread is created and started, and the
\* call returns True without waiting for what the thread does
StartSpawn(c) ==
    /\ pc[c] = "start_spawn"
    /\ capture_thread' = NextThread
    /\ tpc' = [tpc EXCEPT ![NextThread] = "open"]
    /\ pc' = [pc EXCEPT ![c] = "idle"]
    /\ ev' = Returned("start", "True", c)
    /\ arg' = [arg EXCEPT ![c] = NoRequest]
    /\ OvlMarkEnd(c, "start")
    /\ UNCHANGED <<packets, packet_queue, is_capturing, packet_count,
                   interface, filter, tinfo, tcount, nframes, ncalls,
                   log, busy>>
    /\ UNCHANGED <<reader, seen, emitter, max_packets>>

start_capture(c) ==
    \/ StartRejected(c)
    \/ StartAccepted(c)
    \/ StartSetFlag(c)
    \/ StartResetCount(c)
    \/ StartSpawn(c)

\* --------------------------------------------------------- stop_capture ----
\* network_sniffer.py:246: return True
StopReturn(c) ==
    /\ pc' = [pc EXCEPT ![c] = "idle"]
    /\ ev' = Returned("stop", "True", c)
    /\ OvlEnd(c)

\* a stop_capture that forgets to clear is_capturing
StopKeepsFlag(c) ==
    /\ pc[c] = "idle"
    /\ ncalls < MaxCalls
    /\ ncalls' = ncalls + 1
    /\ pc' = [pc EXCEPT ![c] = "stop_thread"]
    /\ ev' = NoEvent
    /\ OvlMark(c, "stop")
    /\ UNCHANGED <<session, tpc, tinfo, tcount, arg, nframes, log, busy>>
    /\ UNCHANGED <<reader, seen, emitter, max_packets>>

\* a stop_capture that also sets the counter back
StopResetsCount(c) ==
    /\ pc[c] = "idle"
    /\ ncalls < MaxCalls
    /\ is_capturing' = FALSE
    /\ packet_count' = 0
    /\ ncalls' = ncalls + 1
    /\ pc' = [pc EXCEPT ![c] = "stop_thread"]
    /\ ev' = NoEvent
    /\ OvlMark(c, "stop")
    /\ UNCHANGED <<packets, packet_queue, capture_thread,
                   interface, filter, tpc, tinfo, tcount, arg, nframes,
                   log, busy>>
    /\ UNCHANGED <<reader, seen, emitter, max_packets>>

\* network_sniffer.py:243: self.is_capturing = False
StopClearFlag(c) ==
    /\ pc[c] = "idle"
    /\ ncalls < MaxCalls
    /\ is_capturing' = FALSE
    /\ ncalls' = ncalls + 1
    /\ pc' = [pc EXCEPT ![c] = "stop_thread"]
    /\ ev' = NoEvent
    /\ OvlMark(c, "stop")
    /\ UNCHANGED <<packets, packet_queue, capture_thread, packet_count,
                   interface, filter, tpc, tinfo, tcount, arg, nframes,
                   log, busy>>
    /\ UNCHANGED <<reader, seen, emitter, max_packets>>

\* network_sniffer.py:244: "if self.capture_thread:"
StopTestThread(c) ==
    /\ pc[c] = "stop_thread"
    /\ \/ /\ capture_thread = NoThread
          /\ StopReturn(c)
       \/ /\ capture_thread # NoThread
          /\ pc' = [pc EXCEPT ![c] = "stop_join"]
          /\ ev' = NoEvent
          /\ UNCHANGED ovl
    /\ UNCHANGED <<session, tpc, tinfo, tcount, arg, nframes, ncalls,
                   log, busy>>
    /\ UNCHANGED <<reader, seen, emitter, max_packets>>

\* network_sniffer.py:245-246: join(timeout=1) ends because the thread has
\* ended or because the second has passed; either way the call returns True
StopJoin(c) ==
    /\ pc[c] = "stop_join"
    /\ \/ ~Alive(capture_thread)
       \/ Alive(capture_thread)
    /\ StopReturn(c)
    /\ UNCHANGED <<session, tpc, tinfo, tcount, arg, nframes, ncalls,
                   log, busy>>
    /\ UNCHANGED <<reader, seen, emitter, max_packets>>

stop_capture(c) ==
    \/ StopClearFlag(c)
    \/ StopTestThread(c)
    \/ StopJoin(c)

\* -------------------------------------------------------- clear_packets ----
\* network_sniffer.py:285: self.packets.clear()
ClearList(c) ==
    /\ pc[c] = "idle"
    /\ ncalls < MaxCalls
    /\ packets' = <<>>
    /\ ncalls' = ncalls + 1
    /\ pc' = [pc EXCEPT ![c] = "clear_count"]
    /\ ev' = NoEvent
    /\ log' = <<>>
    /\ busy' = [busy EXCEPT ![c] = \E t \in Threads : tpc[t] \in CallbackPcs]
    /\ UNCHANGED <<packet_queue, is_capturing, capture_thread, packet_count,
                   interface, filter, tpc, tinfo, tcount, arg, nframes, ovl>>
    /\ Snap
    /\ UNCHANGED <<reader, emitter, max_packets>>

\* a clear_packets that forgets to reset the counter
ClearKeepsCount(c) ==
    /\ pc[c] = "clear_count"
    /\ pc' = [pc EXCEPT ![c] = "idle"]
    /\ ev' = Returned("clear", "None", c)
    /\ busy' = [busy EXCEPT ![c] = FALSE]
    /\ OvlEnd(c)
    /\ UNCHANGED <<session, tpc, tinfo, tcount, arg, nframes, ncalls, log>>
    /\ UNCHANGED <<reader, seen, emitter, max_packets>>

\* network_sniffer.py:286: self.packet_count = 0
ClearCount(c) ==
    /\ pc[c] = "clear_count"
    /\ packet_count' = 0
    /\ pc' = [pc EXCEPT ![c] = "idle"]
    /\ ev' = Returned("clear", "None", c)
    /\ busy' = [busy EXCEPT ![c] = FALSE]
    /\ OvlEnd(c)
    /\ UNCHANGED <<packets, packet_queue, is_capturing, capture_thread,
                   interface, filter, tpc, tinfo, tcount, arg, nframes,
                   ncalls, log>>
    /\ UNCHANGED <<reader, seen, emitter, max_packets>>

clear_packets(c) ==
    \/ ClearList(c)
    \/ ClearCount(c)

\* ------------------------------------------------------- capture thread ----
\* network_sniffer.py:225-235, capture_packets: sniff() opens the packet
\* source for the interface and filter.  A failure to open raises inside
\* the thread, where "except Exception" prints it and the thread ends.
SniffOpen(t) ==
    /\ tpc[t] = "open"
    /\ \/ /\ tpc' = [tpc EXCEPT ![t] = "wait"]
          /\ ev' = NoEvent
       \/ /\ tpc' = [tpc EXCEPT ![t] = "open_failed"]
          /\ ev' = Ended("open_failed")
    /\ UNCHANGED <<session, tinfo, tcount, pc, arg, nframes,
                   ncalls, log, ovl, busy>>
    /\ UNCHANGED <<reader, seen, emitter, max_packets>>

\* the source raises while the thread waits for the next frame: the same
\* "except Exception" prints the error and the thread ends
SniffError(t) ==
    /\ tpc[t] = "wait"
    /\ tpc' = [tpc EXCEPT ![t] = "source_error"]
    /\ ev' = Ended("source_error")
    /\ UNCHANGED <<session, tinfo, tcount, pc, arg, nframes,
                   ncalls, log, ovl, busy>>
    /\ UNCHANGED <<reader, seen, emitter, max_packets>>

\* a packet_callback without the test of is_capturing
CallbackEnterUnguarded(t) ==
    /\ tpc[t] = "wait"
    /\ nframes < MaxFrames
    /\ nframes' = nframes + 1
    /\ tinfo' = [tinfo EXCEPT ![t] = analyze_packet(nframes + 1)]
    /\ tpc' = [tpc EXCEPT ![t] = "cb_append"]
    /\ MarkBusy
    /\ ev' = NoEvent
    /\ UNCHANGED <<session, tcount, pc, arg, ncalls, log, ovl>>
    /\ UNCHANGED <<reader, seen, emitter, max_packets>>

\* network_sniffer.py:137-142: the source yields a frame, sniff() calls
\* packet_callback, which returns at once when is_capturing is false and
\* otherwise builds packet_info with analyze_packet
CallbackEnter(t) ==
    /\ tpc[t] = "wait"
    /\ nframes < MaxFrames
    /\ nframes' = nframes + 1
    /\ \/ /\ ~is_capturing
          /\ tpc' = [tpc EXCEPT ![t] = "stop_filter"]
          /\ UNCHANGED <<tinfo, busy>>
       \/ /\ is_capturing
          /\ tinfo' = [tinfo EXCEPT ![t] = analyze_packet(nframes + 1)]
          /\ tpc' = [tpc EXCEPT ![t] = "cb_append"]
          /\ MarkBusy
    /\ ev' = NoEvent
    /\ UNCHANGED <<session, tcount, pc, arg, ncalls, log, ovl>>
    /\ UNCHANGED <<reader, seen, emitter, max_packets>>

\* network_sniffer.py:142, 225-235: analyze_packet raises on the frame.
\* Neither analyze_packet nor packet_callback has a handler, so the
\* exception leaves packet_callback and sniff(); "except Exception" of
\* capture_packets prints it and the thread ends.  is_capturing is not
\* written.  (The frames of Spec are all frames analyze_packet accepts.)
CallbackRaise(t) ==
    /\ tpc[t] = "wait"
    /\ nframes < MaxFrames
    /\ is_capturing
    /\ nframes' = nframes + 1
    /\ tpc' = [tpc EXCEPT ![t] = "callback_error"]
    /\ ev' = Ended("analyze_error")
    /\ UNCHANGED <<session, tinfo, tcount, pc, arg, ncalls, log, ovl, busy>>
    /\ UNCHANGED <<reader, seen, emitter, max_packets>>

\* network_sniffer.py:143: self.packets.append(packet_info)
CallbackAppend(t) ==
    /\ tpc[t] = "cb_append"
    /\ packets' = Append(packets, tinfo[t])
    /\ log' = Append(log, tinfo[t])
    /\ tpc' = [tpc EXCEPT ![t] = "cb_put"]
    /\ MarkBusy
    /\ ev' = NoEvent
    /\ UNCHANGED <<packet_queue, is_capturing, capture_thread, packet_count,
                   interface, filter, tinfo, tcount, pc, arg, nframes,
                   ncalls, ovl>>
    /\ Snap
    /\ UNCHANGED <<reader, emitter, max_packets>>

\* a put on a queue that holds one record at most: it waits for a consumer
CallbackPutBounded(t) ==
    /\ tpc[t] = "cb_put"
    /\ Len(packet_queue) < 1
    /\ packet_queue' = Append(packet_queue, tinfo[t])
    /\ tinfo' = [tinfo EXCEPT ![t] = NoInfo]
    /\ tpc' = [tpc EXCEPT ![t] = "cb_read"]
    /\ MarkBusy
    /\ ev' = NoEvent
    /\ UNCHANGED <<packets, is_capturing, capture_thread, packet_count,
                   interface, filter, tcount, pc, arg, nframes,
                   ncalls, log, ovl>>
    /\ UNCHANGED <<reader, seen, emitter, max_packets>>

\* network_sniffer.py:23, 144: self.packet_queue.put(packet_info) on the
\* queue.Queue() made without maxsize, which is never full
CallbackPut(t) ==
    /\ tpc[t] = "cb_put"
    /\ packet_queue' = Append(packet_queue, tinfo[t])
    /\ tinfo' = [tinfo EXCEPT ![t] = NoInfo]
    /\ tpc' = [tpc EXCEPT ![t] = "cb_read"]
    /\ MarkBusy
    /\ ev' = NoEvent
    /\ UNCHANGED <<packets, is_capturing, capture_thread, packet_count,
                   interface, filter, tcount, pc, arg, nframes,
                   ncalls, log, ovl>>
    /\ UNCHANGED <<reader, seen, emitter, max_packets>>

\* network_sniffer.py:145, "self.packet_count += 1": the read
CallbackReadCount(t) ==
    /\ tpc[t] = "cb_read"
    /\ tcount' = [tcount EXCEPT ![t] = packet_count]
    /\ tpc' = [tpc EXCEPT ![t] = "cb_write"]
    /\ MarkBusy
    /\ ev' = NoEvent
    /\ UNCHANGED <<session, tinfo, pc, arg, nframes,
                   ncalls, log, ovl>>
    /\ UNCHANGED <<reader, seen, emitter, max_packets>>

\* network_sniffer.py:145, "self.packet_count += 1": the write
CallbackWriteCount(t) ==
    /\ tpc[t] = "cb_write"
    /\ packet_count' = tcount[t] + 1
    /\ tcount' = [tcount EXCEPT ![t] = 0]
    /\ tpc' = [tpc EXCEPT ![t] = "cb_len"]
    /\ MarkBusy
    /\ ev' = NoEvent
    /\ UNCHANGED <<packets, packet_queue, is_capturing, capture_thread,
                   interface, filter, tinfo, pc, arg, nframes,
                   ncalls, log, ovl>>
    /\ UNCHANGED <<reader, seen, emitter, max_packets>>

\* a test that already trims a history of 1000 records
CallbackTestLenAtCapacity(t) ==
    /\ tpc[t] = "cb_len"
    /\ \/ /\ Len(packets) >= Capacity
          /\ tpc' = [tpc EXCEPT ![t] = "cb_pop"]
       \/ /\ Len(packets) < Capacity
          /\ tpc' = [tpc EXCEPT ![t] = "stop_filter"]
    /\ MarkBusy
    /\ ev' = NoEvent
    /\ UNCHANGED <<session, tinfo, tcount, pc, arg, nframes,
                   ncalls, log, ovl>>
    /\ UNCHANGED <<reader, seen, emitter, max_packets>>

\* network_sniffer.py:148: if len(self.packets) > 1000
CallbackTestLen(t) ==
    /\ tpc[t] = "cb_len"
    /\ \/ /\ Len(packets) > Capacity
          /\ tpc' = [tpc EXCEPT ![t] = "cb_pop"]
       \/ /\ Len(packets) <= Capacity
          /\ tpc' = [tpc EXCEPT ![t] = "stop_filter"]
    /\ MarkBusy
    /\ ev' = NoEvent
    /\ UNCHANGED <<session, tinfo, tcount, pc, arg, nframes,
                   ncalls, log, ovl>>
    /\ UNCHANGED <<reader, seen, emitter, max_packets>>

\* network_sniffer.py:149: self.packets.pop(0); on a list emptied in the
\* meantime pop raises IndexError, which leaves sniff() and ends the thread
CallbackPop(t) ==
    /\ tpc[t] = "cb_pop"
    /\ \/ /\ packets # <<>>
          /\ packets' = Tail(packets)
          /\ tpc' = [tpc EXCEPT ![t] = "stop_filter"]
          /\ ev' = NoEvent
       \/ /\ packets = <<>>
          /\ tpc' = [tpc EXCEPT ![t] = "callback_error"]
          /\ ev' = Ended("callback_error")
          /\ UNCHANGED packets
    /\ MarkBusy
    /\ UNCHANGED <<packet_queue, is_capturing, capture_thread, packet_count,
                   interface, filter, tinfo, tcount, pc, arg, nframes,
                   ncalls, log, ovl>>
    /\ Snap
    /\ UNCHANGED <<reader, emitter, max_packets>>

\* network_sniffer.py:232: stop_filter=lambda x: not self.is_capturing,
\* evaluated by sniff() after each call of packet_callback
StopFilter(t) ==
    /\ tpc[t] = "stop_filter"
    /\ \/ /\ ~is_capturing
          /\ tpc' = [tpc EXCEPT ![t] = "stopped"]
          /\ ev' = Ended("stopped")
       \/ /\ is_capturing
          /\ tpc' = [tpc EXCEPT ![t] = "wait"]
          /\ ev' = NoEvent
    /\ UNCHANGED <<session, tinfo, tcount, pc, arg, nframes,
                   ncalls, log, ovl, busy>>
    /\ UNCHANGED <<reader, seen, emitter, max_packets>>

packet_callback(t) ==
    \/ CallbackEnter(t)
    \/ CallbackAppend(t)
    \/ CallbackPut(t)
    \/ CallbackReadCount(t)
    \/ CallbackWriteCount(t)
    \/ CallbackTestLen(t)
    \/ CallbackPop(t)

capture_packets(t) ==
    \/ SniffOpen(t)
    \/ SniffError(t)
    \/ packet_callback(t)
    \/ StopFilter(t)

\* ---------------------------------------------------------- reader task ----
\* network_sniffer.py:279-281: a call get_recent_packets(count) of the
\* reader task (cli_sniffer.py:144, demo_app.py:72-73)
ReadRecent ==
    /\ rpc = "idle"
    /\ \E count \in -1..(MaxHistory + 1) :
          ev' = Answered("recent", <<count>>, get_recent_packets(count))
    /\ UNCHANGED <<session, tpc, tinfo, tcount, pc, arg, nframes, ncalls,
                   log, ovl, busy, max_packets, reader, seen, emitter>>

\* an export that empties the history once the file is written
ExportAndClear ==
    /\ rpc = "idle"
    /\ \/ /\ ev' = Answered("export", <<"packets.json">>,
                             [returned |-> TRUE, file |-> packets])
          /\ packets' = <<>>
       \/ /\ \E n \in 0..Len(packets) :
                ev' = Answered("export", <<"packets.json">>,
                               [returned |-> FALSE,
                                file |-> SliceTo(packets, n)])
          /\ UNCHANGED packets
    /\ UNCHANGED <<packet_queue, is_capturing, capture_thread, packet_count,
                   interface, filter, tpc, tinfo, tcount, pc, arg, nframes,
                   ncalls, log, ovl, busy, max_packets, reader, seen, emitter>>

\* network_sniffer.py:288-296 (demo_sniffer.py:149-157 is the same code): a
\* call export_packets(filename) of the reader task (cli_sniffer.py:177,
\* demo_app.py:94).  json.dump writes the records of self.packets in list
\* order and the call returns True; an exception of open(), of json.dump or
\* of closing the file is printed and the call returns False, the file
\* holding what was written until then.  ev.result is the returned value
\* with the records the file holds.
ExportPackets ==
    /\ rpc = "idle"
    /\ \/ ev' = Answered("export", <<"packets.json">>,
                          [returned |-> TRUE, file |-> packets])
       \/ \E n \in 0..Len(packets) :
             ev' = Answered("export", <<"packets.json">>,
                            [returned |-> FALSE,
                             file |-> SliceTo(packets, n)])
    /\ UNCHANGED <<session, tpc, tinfo, tcount, pc, arg, nframes, ncalls,
                   log, ovl, busy, max_packets, reader, seen, emitter>>

\* the local dicts of the get_packet_stats call in progress
Tables == [protocols |-> protocols, ips |-> ips, ports |-> ports]

\* a get_packet_stats that goes on counting in the dicts of the call before
StatsBeginKeepsTables ==
    /\ rpc = "idle"
    /\ Len(results) < MaxReads
    /\ seen' = {packets}
    /\ \/ /\ packets = <<>>
          /\ results' = Append(results, EmptyDict)
          /\ ev' = Answered("stats", <<>>, EmptyDict)
          /\ UNCHANGED <<rpc, ridx, protocols, ips, ports>>
       \/ /\ packets # <<>>
          /\ ridx' = 0
          /\ rpc' = "stats_for"
          /\ ev' = NoEvent
          /\ UNCHANGED <<results, protocols, ips, ports>>
    /\ UNCHANGED <<session, tpc, tinfo, tcount, pc, arg, nframes, ncalls,
                   log, ovl, busy, max_packets, emitter>>

\* network_sniffer.py:250-257: "if not self.packets: return {}"; otherwise
\* three empty dicts and the iterator of the for loop
StatsBegin ==
    /\ rpc = "idle"
    /\ Len(results) < MaxReads
    /\ seen' = {packets}
    /\ \/ /\ packets = <<>>
          /\ results' = Append(results, EmptyDict)
          /\ ev' = Answered("stats", <<>>, EmptyDict)
          /\ UNCHANGED <<rpc, ridx, protocols, ips, ports>>
       \/ /\ packets # <<>>
          /\ protocols' = <<>>
          /\ ips' = <<>>
          /\ ports' = <<>>
          /\ ridx' = 0
          /\ rpc' = "stats_for"
          /\ ev' = NoEvent
          /\ UNCHANGED results
    /\ UNCHANGED <<session, tpc, tinfo, tcount, pc, arg, nframes, ncalls,
                   log, ovl, busy, max_packets, emitter>>

\* network_sniffer.py:257-270: one turn of "for packet in self.packets".
\* The list iterator holds an index into the list: it yields the element at
\* the index while the index is below the current length of the list, and
\* the loop ends otherwise.
StatsFor ==
    /\ rpc = "stats_for"
    /\ \/ /\ ridx < Len(packets)
          /\ LET acc == TallyPacket(Tables, packets[ridx + 1])
             IN  /\ protocols' = acc.protocols
                 /\ ips' = acc.ips
                 /\ ports' = acc.ports
          /\ ridx' = ridx + 1
          /\ UNCHANGED rpc
       \/ /\ ridx >= Len(packets)
          /\ rpc' = "stats_return"
          /\ UNCHANGED <<ridx, protocols, ips, ports>>
    /\ ev' = NoEvent
    /\ UNCHANGED <<session, tpc, tinfo, tcount, pc, arg, nframes, ncalls,
                   log, ovl, busy, max_packets, results, seen, emitter>>

\* network_sniffer.py:272-277: the returned dict, with len(self.packets)
\* read now
StatsReturn ==
    /\ rpc = "stats_return"
    /\ LET d == StatsDict(Len(packets), Tables)
       IN  /\ results' = Append(results, d)
           /\ ev' = Answered("stats", <<>>, d)
    /\ rpc' = "idle"
    /\ ridx' = 0
    /\ UNCHANGED <<session, tpc, tinfo, tcount, pc, arg, nframes, ncalls,
                   log, ovl, busy, max_packets, protocols, ips, ports, seen, emitter>>

get_packet_stats ==
    \/ StatsBegin
    \/ StatsFor
    \/ StatsReturn

\* --------------------------------------------------- live-consumer loop ----
\* demo_app.py:100-117, background_packet_emitter, run by consumer e on the
\* session's packet_queue.
\* demo_app.py:103: if sniffer.is_capturing
EmitterTest(e) ==
    /\ epc[e] = "em_test"
    /\ epc' = [epc EXCEPT ![e] = IF is_capturing THEN "em_empty" ELSE "em_sleep"]
    /\ ev' = NoEvent
    /\ UNCHANGED <<session, tpc, tinfo, tcount, pc, arg, nframes, ncalls,
                   log, ovl, busy, max_packets, reader, seen, epacket, received>>

\* demo_app.py:106: while not sniffer.packet_queue.empty()
EmitterEmpty(e) ==
    /\ epc[e] = "em_empty"
    /\ epc' = [epc EXCEPT ![e] = IF packet_queue # <<>> THEN "em_get"
                                 ELSE "em_stats"]
    /\ ev' = NoEvent
    /\ UNCHANGED <<session, tpc, tinfo, tcount, pc, arg, nframes, ncalls,
                   log, ovl, busy, max_packets, reader, seen, epacket, received>>

\* a get that takes the newest record of the queue, as a LIFO queue does
EmitterGetNewest(e) ==
    /\ epc[e] = "em_get"
    /\ \/ /\ packet_queue # <<>>
          /\ epacket' = [epacket EXCEPT ![e] = packet_queue[Len(packet_queue)]]
          /\ packet_queue' = SubSeq(packet_queue, 1, Len(packet_queue) - 1)
          /\ epc' = [epc EXCEPT ![e] = "em_emit"]
       \/ /\ packet_queue = <<>>
          /\ epc' = [epc EXCEPT ![e] = "em_sleep"]
          /\ UNCHANGED <<epacket, packet_queue>>
    /\ ev' = NoEvent
    /\ UNCHANGED <<packets, is_capturing, capture_thread, packet_count,
                   interface, filter, tpc, tinfo, tcount, pc, arg, nframes,
                   ncalls, log, ovl, busy, max_packets, reader, seen, received>>

\* demo_app.py:107: packet = sniffer.packet_queue.get_nowait(); on a queue
\* emptied since the test of line 106 it raises queue.Empty, which the
\* "except Exception" of line 114 prints
EmitterGet(e) ==
    /\ epc[e] = "em_get"
    /\ \/ /\ packet_queue # <<>>
          /\ epacket' = [epacket EXCEPT ![e] = Head(packet_queue)]
          /\ packet_queue' = Tail(packet_queue)
          /\ epc' = [epc EXCEPT ![e] = "em_emit"]
       \/ /\ packet_queue = <<>>
          /\ epc' = [epc EXCEPT ![e] = "em_sleep"]
          /\ UNCHANGED <<epacket, packet_queue>>
    /\ ev' = NoEvent
    /\ UNCHANGED <<packets, is_capturing, capture_thread, packet_count,
                   interface, filter, tpc, tinfo, tcount, pc, arg, nframes,
                   ncalls, log, ovl, busy, max_packets, reader, seen, received>>

\* demo_app.py:108: socketio.emit('new_packet', packet)
EmitterEmit(e) ==
    /\ epc[e] = "em_emit"
    /\ received' = [received EXCEPT ![e] = Append(received[e], epacket[e])]
    /\ epacket' = [epacket EXCEPT ![e] = NoInfo]
    /\ epc' = [epc EXCEPT ![e] = "em_empty"]
    /\ ev' = NoEvent
    /\ UNCHANGED <<session, tpc, tinfo, tcount, pc, arg, nframes, ncalls,
                   log, ovl, busy, max_packets, reader, seen>>

\* demo_app.py:111-112: the stats are computed and emitted; the call
\* changes no field of the session
EmitterStats(e) ==
    /\ epc[e] = "em_stats"
    /\ epc' = [epc EXCEPT ![e] = "em_sleep"]
    /\ ev' = NoEvent
    /\ UNCHANGED <<session, tpc, tinfo, tcount, pc, arg, nframes, ncalls,
                   log, ovl, busy, max_packets, reader, seen, epacket, received>>

\* demo_app.py:117: time.sleep(0.1), then the next turn of "while True"
EmitterSleep(e) ==
    /\ epc[e] = "em_sleep"
    /\ epc' = [epc EXCEPT ![e] = "em_test"]
    /\ ev' = NoEvent
    /\ UNCHANGED <<session, tpc, tinfo, tcount, pc, arg, nframes, ncalls,
                   log, ovl, busy, max_packets, reader, seen, epacket, received>>

background_packet_emitter(e) ==
    \/ EmitterTest(e)
    \/ EmitterEmpty(e)
    \/ EmitterGet(e)
    \/ EmitterEmit(e)
    \/ EmitterStats(e)
    \/ EmitterSleep(e)

\* ------------------------------------------------------- specification ----
Next ==
    \/ \E c \in Callers : start_capture(c)
    \/ \E c \in Callers : stop_capture(c)
    \/ \E c \in Callers : clear_packets(c)
    \/ \E t \in Threads : capture_packets(t)

Spec == Init /\ [][Next]_vars

\* The reader task on a session at rest: a capture on eth0 has stored the
\* history and was stopped, and its thread has ended.
Histories == UNION {[1..n -> Infos] : n \in 0..MaxHistory}
InitQuery ==
    /\ packets \in Histories
    /\ packet_queue = packets
    /\ log = packets
    /\ packet_count = Len(packets)
    /\ is_capturing = FALSE
    /\ capture_thread = 1
    /\ interface = "eth0"
    /\ filter = ""
    /\ tpc = [t \in Threads |-> IF t = 1 THEN "stopped" ELSE "unborn"]
    /\ tinfo = [t \in Threads |-> NoInfo]
    /\ tcount = [t \in Threads |-> 0]
    /\ pc = [c \in Callers |-> "idle"]
    /\ arg = [c \in Callers |-> NoRequest]
    /\ ev = NoEvent
    /\ nframes = 0
    /\ ncalls = 0
    /\ ovl = [c \in Callers |-> {}]
    /\ busy = [c \in Callers |-> FALSE]
    /\ InitReader
    /\ InitEmitter
    /\ max_packets = DefaultMaxPackets

NextQuery ==
    \/ ReadRecent
    \/ get_packet_stats

SpecQuery == InitQuery /\ [][NextQuery]_vars

\* The reader task beside a running capture: start_capture("eth0") has
\* returned on the new session and sniff() has opened the source.
CaptureStarted ==
    /\ packets = <<>>
    /\ packet_queue = <<>>
    /\ log = <<>>
    /\ packet_count = 0
    /\ is_capturing = TRUE
    /\ capture_thread = 1
    /\ interface = "eth0"
    /\ filter = ""
    /\ tpc = [t \in Threads |-> IF t = 1 THEN "wait" ELSE "unborn"]
    /\ tinfo = [t \in Threads |-> NoInfo]
    /\ tcount = [t \in Threads |-> 0]
    /\ pc = [c \in Callers |-> "idle"]
    /\ arg = [c \in Callers |-> NoRequest]
    /\ ev = NoEvent
    /\ nframes = 0
    /\ ncalls = 1
    /\ ovl = [c \in Callers |-> {}]
    /\ busy = [c \in Callers |-> FALSE]
    /\ InitReader
    /\ InitEmitter

InitCapturing ==
    /\ CaptureStarted
    /\ max_packets = DefaultMaxPackets

NextSnapshot ==
    \/ \E t \in Threads : packet_callback(t)
    \/ \E t \in Threads : StopFilter(t)
    \/ get_packet_stats

SpecSnapshot == InitCapturing /\ [][NextSnapshot]_vars

\* The live-consumer loops beside a running capture.
NextFanout ==
    \/ \E t \in Threads : packet_callback(t)
    \/ \E t \in Threads : StopFilter(t)
    \/ \E e \in Consumers : background_packet_emitter(e)

SpecFanout == InitCapturing /\ [][NextFanout]_vars

\* The web application, demo_app.py:40-57, 82-86 and 134-137: the request
\* handlers call start_capture, stop_capture and clear_packets on the global
\* session, and the one background_packet_emitter thread started at line
\* 136 drains its queue.
Handler == "web"
Emitter == "viewer1"
NextService ==
    \/ start_capture(Handler)
    \/ stop_capture(Handler)
    \/ clear_packets(Handler)
    \/ \E t \in Threads : capture_packets(t)
    \/ background_packet_emitter(Emitter)

SpecService == Init /\ [][NextService]_vars

\* the emitter thread is a daemon thread in "while True": the scheduler
\* lets it take its next step again and again
SpecServiceFair == SpecService /\ WF_vars(background_packet_emitter(Emitter))

\* network_sniffer.py:142: analyze_packet is applied to a frame; ev holds
\* the frame and the packet_info returned
Analyze ==
    /\ \E f \in Frames : ev' = Answered("analyze", <<f>>, analyze_layers(f))
    /\ UNCHANGED <<session, tpc, tinfo, tcount, pc, arg, nframes, ncalls,
                   log, ovl, busy, max_packets, reader, seen, emitter>>

\* demo_sniffer.py:70: generate_demo_packet is called; ev holds the
\* packet_info returned
GenerateDemo ==
    /\ \E protocol \in DemoProtocols, draw \in DemoDraws, flag \in DemoFlags :
          ev' = Answered("generate", <<>>,
                         generate_demo_packet(protocol, draw, flag))
    /\ UNCHANGED <<session, tpc, tinfo, tcount, pc, arg, nframes, ncalls,
                   log, ovl, busy, max_packets, reader, seen, emitter>>

\* The two makers of packet_info, each applied to every input.
NextClassify ==
    \/ Analyze
    \/ GenerateDemo

SpecClassify == Init /\ [][NextClassify]_vars

\* export_packets on a session at rest (cli_sniffer.py:165-177: the export
\* is offered once stop_capture has returned).
SpecExport == InitQuery /\ [][ExportPackets]_vars

\* A run of the command line, cli_sniffer.py:124-165 and 254:
\* live_capture(interface, filter_str, max_packets) has made a NetworkSniffer
\* and called start_capture(interface, filter_str); max_packets is passed to
\* nothing.  The capture thread delivers frames, some of which
\* analyze_packet may fail on, until Ctrl+C makes live_capture call
\* stop_capture.
InitLive ==
    /\ CaptureStarted
    /\ max_packets \in MaxPacketsOptions

NextLive ==
    \/ \E t \in Threads : packet_callback(t)
    \/ \E t \in Threads : CallbackRaise(t)
    \/ \E t \in Threads : StopFilter(t)
    \/ stop_capture("cli")

SpecLive == InitLive /\ [][NextLive]_vars

\* ============================================================== claims ====
\* no capture thread is inside packet_callback past the is_capturing test
Quiescent == \A t \in Threads : tpc[t] \notin CallbackPcs

\* is_capturing is false and no start() or stop() is under way.  A capture
\* thread exists only after a start() set the flag, so the flag was cleared
\* by a stop() since; that stop() has returned, and no start() was called
\* after it returned (it would be under way or would have set the flag).
StoppedForGood ==
    /\ ~is_capturing
    /\ \A c \in Callers : pc[c] \notin (StartPcs \cup StopPcs)

\* C1: in every reachable state, also between the steps of a delivery, the
\* history holds at most Capacity records.
C1_HistoryWithinCapacity == Len(packets) <= Capacity

\* C2: after more than Capacity deliveries with no clear() in between, once
\* no delivery is in progress, get_recent_packets(Capacity) is exactly the
\* last Capacity delivered records in delivery order.
C2_RecentIsLastDelivered ==
    (Quiescent /\ Len(log) > Capacity)
        => get_recent_packets(Capacity) = LastN(log, Capacity)

\* C3: at no time do two producer loops run for the same session.
C3_AtMostOneProducer == Cardinality(Running) <= 1

\* C4: start() called while the session is Capturing returns False and
\* leaves packet_count, interface, filter, the history, is_capturing and the
\* capture threads unchanged.
C4_RejectedStartChangesNothing ==
    [][\A c \in Callers :
          (pc[c] = "idle" /\ is_capturing /\ start_capture(c))
              => /\ ev'.call = "start" /\ ev'.by = c /\ ev'.result = "False"
                 /\ UNCHANGED <<session, tpc>>]_vars

\* C4 witness: a start() was just rejected on a session that has captured
\* records.
C4_Witness ==
    /\ ev.call = "start" /\ ev.result = "False"
    /\ packets # <<>> /\ packet_count > 0

\* C5: when a start(interface, filter) on an Idle session returns, it
\* returns True, is_capturing is true, interface and filter equal the
\* arguments, packet_count is 0 and the call has spawned one producer loop.
\* (Stated for the calls during which no call of another task wrote a
\* field of the session.)
C5_StartPostcondition ==
    (ev.call = "start" /\ ev.ovl = {} /\ ev.result = "True")
        => /\ is_capturing
           /\ interface = ev.req[1] /\ filter = ev.req[2]
           /\ packet_count = 0
           /\ capture_thread # NoThread
           /\ tpc[capture_thread] = "open"

\* C6: in the step in which the packet source fails to open, the session
\* is Idle.
C6_OpenFailureLeavesIdle == ev.call = "open_failed" => ~is_capturing

\* C7: in the step in which the packet source raises in the middle of a
\* capture, the session becomes Idle.
C7_SourceErrorLeavesIdle == ev.call = "source_error" => ~is_capturing

C9_NoDeliveryAfterStop ==
    [][StoppedForGood
          => /\ Len(log') <= Len(log)
             /\ packet_count' <= packet_count]_vars

\* C10: a clear() during which no producer delivery was in progress returns
\* with packet_count = 0 and an empty history (get_recent_packets(n) is
\* empty for every n), and no step of clear() changes is_capturing.
C10_ClearEmptiesSession ==
    /\ []((ev.call = "clear" /\ ~ev.busy)
            => /\ packet_count = 0
               /\ packets = <<>>
               /\ \A n \in -1..(Capacity + 2) : get_recent_packets(n) = <<>>)
    /\ [][\A c \in Callers :
            clear_packets(c) => UNCHANGED is_capturing]_vars

\* C10 witness: a clear() with no delivery in progress has returned on a
\* capturing session that had delivered records.
C10_Witness ==
    /\ ev.call = "clear" /\ ~ev.busy
    /\ is_capturing /\ packet_queue # <<>>

\* C11: there is no reachable state in which a clear() of a caller task has
\* executed only part of its effect (the list is emptied, the counter not
\* yet reset) while a delivery has executed only part of its effect (the
\* record is appended, the counter not yet incremented).
C11_ClearExcludesDelivery ==
    \A c \in Callers : \A t \in Threads :
        ~(pc[c] = "clear_count" /\ tpc[t] \in {"cb_put", "cb_read", "cb_write"})

\* ---- readers ----
Min(a, b) == IF a < b THEN a ELSE b
\* number of records of the history whose field has the value k
Freq(field, default, k) ==
    Cardinality({i \in DOMAIN packets : Get(packets[i], field, default) = k})
\* values the field takes in the history
Values(field, default) ==
    {Get(packets[i], field, default) : i \in DOMAIN packets}
\* index of the first record of the history whose field has the value k
FirstSeen(field, default, k) ==
    CHOOSE i \in DOMAIN packets :
        /\ Get(packets[i], field, default) = k
        /\ \A j \in 1..(i - 1) : Get(packets[j], field, default) # k
RECURSIVE SumCounts(_)
SumCounts(d) == IF d = <<>> THEN 0 ELSE Head(d)[2] + SumCounts(Tail(d))

\* C12: get_recent_packets(n) with n >= 1 returns the last min(n, size)
\* records of the history, oldest first (all of them when n > size), and
\* the call does not change the history.
C12_RecentReturnsLastRecords ==
    /\ []((ev.call = "recent" /\ ev.req[1] >= 1)
            => LET k == Min(ev.req[1], Len(packets))
               IN  /\ Len(ev.result) = k
                   /\ \A i \in 1..k :
                         ev.result[i] = packets[Len(packets) - k + i])
    /\ [][ReadRecent => UNCHANGED packets]_vars

\* C12 witness: a call with 1 < n < size has returned on a history whose
\* first and last record differ.
C12_Witness ==
    /\ ev.call = "recent"
    /\ 1 < ev.req[1] /\ ev.req[1] < Len(packets)
    /\ packets[1] # packets[Len(packets)]

\* C13: get_recent_packets(n) with n <= 0 returns an empty sequence,
\* whatever the history contains.
C13_NonPositiveCountReturnsEmpty ==
    (ev.call = "recent" /\ ev.req[1] <= 0) => ev.result = <<>>

\* C14: get_packet_stats() on an empty history returns the empty-stats
\* value: total_packets = 0 and empty protocols, top_ips and top_ports.
C14_EmptyHistoryStats ==
    (ev.call = "stats" /\ packets = <<>>)
        => ev.result = [total_packets |-> 0, protocols |-> <<>>,
                        top_ips |-> <<>>, top_ports |-> <<>>]

\* top holds the entries of the frequency table that C15 asks for
TopEntries(top, table, field, default) ==
    /\ Len(top) = Min(TopN, Len(table))
    /\ \A i \in DOMAIN top : \E j \in DOMAIN table : top[i] = table[j]
    /\ \A i, j \in DOMAIN top :
          i < j => \/ top[i][2] > top[j][2]
                   \/ /\ top[i][2] = top[j][2]
                      /\ FirstSeen(field, default, top[i][1])
                           < FirstSeen(field, default, top[j][1])
    /\ \A j \in DOMAIN table :
          (\A i \in DOMAIN top : top[i][1] # table[j][1])
              => \A i \in DOMAIN top : table[j][2] <= top[i][2]

\* C15: in the result of get_packet_stats(), top_ips and top_ports hold at
\* most TopN entries of their frequency table, in descending order of count,
\* entries of equal count in the order in which their key was first seen in
\* the history, and no key left out has a larger count than a key kept.
C15_TopEntriesSorted ==
    (ev.call = "stats" /\ packets # <<>>)
        => /\ TopEntries(ev.result.top_ips, ips, "src_ip", "Unknown")
           /\ TopEntries(ev.result.top_ports, ports, "src_port", NoPort)

\* C15 witness: a call has returned whose address table has more than TopN
\* keys, and the most frequent address is not the first one seen.
C15_Witness ==
    /\ ev.call = "stats" /\ packets # <<>>
    /\ Len(ips) > TopN
    /\ ev.result.top_ips[1][2] > ev.result.top_ips[2][2]
    /\ ev.result.top_ips[1][1] # ips[1][1]

\* C16: when get_packet_stats() returns, the source-address table counts
\* exactly the records whose src_ip is not "Unknown", and the port table
\* counts exactly the records whose src_port is present, whatever its
\* number.
C16_TablesCountPresentValues ==
    (ev.call = "stats" /\ packets # <<>>)
        => /\ \A k \in Values("src_ip", "Unknown") \cup {"Unknown"} :
                 DictGet(ips, k, 0)
                   = IF k = "Unknown" THEN 0 ELSE Freq("src_ip", "Unknown", k)
           /\ \A k \in Values("src_port", NoPort) \cup {NoPort} :
                 DictGet(ports, k, 0)
                   = IF k = NoPort THEN 0 ELSE Freq("src_port", NoPort, k)

\* C17: the result of get_packet_stats() is the aggregate of the contents
\* the history had at one instant of the call, also when the producer
\* appends and evicts during the call; in particular total_packets is the
\* sum of the protocol counts.
C17_StatsOfOneInstant ==
    ev.call = "stats"
        => /\ \E h \in seen : ev.result = Aggregate(h)
           /\ ev.result # EmptyDict
                 => ev.result.total_packets = SumCounts(ev.result.protocols)

\* C18: the get_packet_stats() calls made on the same unchanged history
\* return identical results.
C18_SameHistorySameStats ==
    \A i, j \in DOMAIN results : results[i] = results[j]

\* C18 witness: two calls have returned on a history that fills the address
\* table.
C18_Witness ==
    /\ Len(results) = 2
    /\ rpc = "idle"
    /\ packets # <<>>
    /\ Len(results[2].top_ips) = TopN

\* ---- fan-out ----
\* C19: every record appended to the history is also put on the fan-out
\* queue, once and in the order of the appends: whenever no delivery is in
\* progress, the records appended since the last clear() are the last
\* records of the queue, in the same order (nothing takes records off the
\* queue here, so the queue is the sequence of records ever enqueued).
C19_QueueFollowsHistory ==
    Quiescent
        => /\ Len(log) <= Len(packet_queue)
           /\ log = LastN(packet_queue, Len(log))

\* the queue is empty and no loop holds a packet it has not emitted yet
Drained ==
    /\ packet_queue = <<>>
    /\ \A e \in Consumers : epc[e] # "em_emit"

C21_DeliveryIndependentOfConsumers ==
    /\ [](\A t \in Threads :
            tpc[t] \in CallbackPcs => ENABLED packet_callback(t))
    /\ [](Quiescent => /\ packets = LastN(log, Capacity)
                       /\ packet_count = Len(log))
    /\ [][(\E e \in Consumers : background_packet_emitter(e))
            => UNCHANGED <<packets, packet_count, log>>]_vars

\* every frame was delivered while no consumer loop took anything from the
\* queue, which holds them all
C21_Witness ==
    /\ Quiescent
    /\ Len(log) = MaxFrames
    /\ Len(packet_queue) = MaxFrames
    /\ \A e \in Consumers : received[e] = <<>> /\ epc[e] = "em_test"

\* C22: the history is in the order in which the frames were observed, and
\* eviction drops the oldest first: at every state the history is the tail
\* of the records appended since the last clear(), and those records are in
\* the order of their frames (analyze_packet stamps each frame when
\* packet_callback receives it).
C22_HistoryIsWindowOfFrames ==
    /\ packets = LastN(log, Len(packets))
    /\ \A i, j \in DOMAIN log :
          i < j => log[i].timestamp < log[j].timestamp

\* C23: packet_count goes down only in a step of clear_packets or of an
\* accepted start_capture, and the step of a delivery that writes it
\* leaves it one above what it was.
C23_CountFollowsDeliveries ==
    [][/\ packet_count' < packet_count
            => \E c \in Callers : ClearCount(c) \/ StartResetCount(c)
       /\ (\E t \in Threads : CallbackWriteCount(t))
            => packet_count' = packet_count + 1]_vars

\* C24: a frame on which classification raises does not end the producer
\* loop: in the state the failure leaves, the capture thread is still
\* running, ready for the next frame, and the session is still capturing.
C24_AnomalyKeepsLoopRunning ==
    ev.call = "analyze_error" => Alive(capture_thread) /\ is_capturing

\* C25: a capture started from the command line with --max-packets M never
\* holds more than M records in its history.
C25_HistoryWithinMaxPackets == Len(packets) <= max_packets

Given == ev.req[1].layers

\* C27: the protocol tag follows the first match: TCP exactly for the frames
\* with an IP and a TCP layer; else UDP exactly for those with IP and UDP;
\* else ICMP exactly for those with IP and ICMP; and ARP exactly for the
\* frames with an ARP layer and no IP layer, so that ARP is not looked at
\* when IP is there.
C27_FirstMatchWins ==
    ev.call = "analyze" =>
        LET tag == ev.result.protocol
        IN  /\ tag = "TCP" <=> {"IP", "TCP"} \subseteq Given
            /\ tag = "UDP" <=> /\ {"IP", "UDP"} \subseteq Given
                               /\ "TCP" \notin Given
            /\ tag = "ICMP" <=> /\ {"IP", "ICMP"} \subseteq Given
                                /\ Given \cap {"TCP", "UDP"} = {}
            /\ tag = "ARP" <=> /\ "ARP" \in Given
                               /\ "IP" \notin Given

\* a frame holding every layer at once was tagged TCP
C27_Witness ==
    /\ ev.call = "analyze"
    /\ Given = Layers
    /\ ev.result.protocol = "TCP"
    /\ ev.result.src_port = Fields.TCP.sport

\* the closed set of protocol tags
ProtocolTags == {"TCP", "UDP", "ICMP", "ARP", "Unknown"}

\* C28: the protocol of every record analyze_packet returns is one of the
\* tags TCP, UDP, ICMP, ARP, Unknown.
C28_ProtocolIsTag == ev.call = "analyze" => ev.result.protocol \in ProtocolTags

\* cli_sniffer.py:102-103: the addresses shown for a record
SourceAddress(packet) == Get(packet, "src_ip", Get(packet, "src_mac", "Unknown"))
DestAddress(packet) == Get(packet, "dst_ip", Get(packet, "dst_mac", "Unknown"))

\* C29: the addresses of a record are those of the IP layer when the frame
\* has one, else those of the ARP layer when it has one, else the MAC
\* addresses of the Ethernet layer when it has one, and "Unknown" only when
\* the frame has none of the three.
C29_AddressOfBestLayer ==
    ev.call = "analyze" =>
        LET src == SourceAddress(ev.result)
            dst == DestAddress(ev.result)
            best == IF "IP" \in Given THEN Fields.IP
                    ELSE IF "ARP" \in Given
                    THEN [src |-> Fields.ARP.psrc, dst |-> Fields.ARP.pdst]
                    ELSE IF "Ether" \in Given THEN Fields.Ether
                    ELSE [src |-> "Unknown", dst |-> "Unknown"]
        IN  src = best.src /\ dst = best.dst

\* C30: in every record analyze_packet or generate_demo_packet returns, a
\* port is present only if the protocol is TCP or UDP, and flags are
\* present only if it is TCP.
C30_PortsAndFlagsByProtocol ==
    ev.call \in {"analyze", "generate"} =>
        /\ (ev.result.src_port # NoPort \/ ev.result.dst_port # NoPort)
              => ev.result.protocol \in {"TCP", "UDP"}
        /\ ev.result.flags # None => ev.result.protocol = "TCP"

\* an ICMP frame was analysed: it has an IP layer and no port
C30_Witness ==
    /\ ev.call = "analyze"
    /\ Given = {"Ether", "IP", "ICMP"}
    /\ ev.result.protocol = "ICMP"
    /\ ev.result.src_port = NoPort
    /\ ev.result.flags = None

\* C31: no step of start_capture changes the history, so the records of an
\* earlier capture are still there for get_recent_packets and
\* get_packet_stats after a restart; and the accepted start_capture sets
\* packet_count to 0.
C31_StartKeepsHistory ==
    [][\A c \in Callers :
          start_capture(c)
              => /\ UNCHANGED packets
                 /\ get_recent_packets(MaxFrames)' = get_recent_packets(MaxFrames)
                 /\ pc[c] = "start_count" => packet_count' = 0]_vars

\* a capture stored a record and was stopped, its thread has ended, and a
\* second start_capture has returned True: the record is still in the
\* history and packet_count is 0
C31_Witness ==
    /\ ev.call = "start" /\ ev.result = "True"
    /\ \E t \in Threads : tpc[t] = "stopped"
    /\ packets # <<>>
    /\ get_recent_packets(MaxFrames) = packets
    /\ packet_count = 0

\* C32: in the first capture of a new session, with its one capture thread
\* and no clear_packets call, whenever the thread is between deliveries the
\* history holds min(packet_count, Capacity) records.
C32_SizeFollowsCount ==
    Quiescent => Len(packets) = Min(packet_count, Capacity)

\* the thread is between deliveries after delivering more than Capacity
\* frames
C32_Witness ==
    /\ Quiescent
    /\ packet_count = MaxFrames
    /\ packet_count > Capacity
    /\ Len(packets) = Capacity

\* C33: a frame handed to packet_callback while is_capturing is false
\* changes nothing: the callback returns in that step, with the history,
\* the fan-out queue and packet_count as they were.
C33_FrameWhileIdleChangesNothing ==
    [][\A t \in Threads :
          (CallbackEnter(t) /\ ~is_capturing)
              => /\ tpc'[t] \notin CallbackPcs
                 /\ tinfo'[t] = NoInfo
                 /\ UNCHANGED <<packets, packet_queue, packet_count>>]_vars

\* the capture was stopped before its first frame: the frame has come and
\* the callback has returned, and nothing was stored, queued or counted
C33_Witness ==
    /\ ~is_capturing
    /\ nframes = 1
    /\ \E t \in Threads : tpc[t] = "stop_filter"
    /\ packets = <<>> /\ packet_queue = <<>> /\ packet_count = 0

\* the record of frame n is in sequence q
Holds(q, n) == \E i \in DOMAIN q : q[i].timestamp = n

\* C34: every record put on the fan-out queue is eventually emitted to the
\* live view by the emitter loop, when the loop keeps being scheduled,
\* whatever calls of stop_capture, start_capture and clear_packets follow.
C34_QueuedIsEventuallyEmitted ==
    \A n \in 1..MaxFrames :
        Holds(packet_queue, n) ~> Holds(received[Emitter], n)

\* the records the emitter loop has emitted, then the one it holds, then
\* those still on the queue
Flow ==
    received[Emitter]
        \o (IF epc[Emitter] = "em_emit" THEN <<epacket[Emitter]>> ELSE <<>>)
        \o packet_queue

\* C35: with the one emitter loop, each record put on the fan-out queue is
\* emitted at most once and the records are emitted in the order of their
\* puts: the sequence "emitted, held, queued" changes only when a delivery
\* puts its record, which goes to its end.
C35_EmittedOnceInOrder ==
    [][\/ Flow' = Flow
       \/ \E t \in Threads :
             CallbackPut(t) /\ Flow' = Append(Flow, tinfo[t])]_vars

\* the loop has emitted the record of every frame and the queue is empty
C35_Witness ==
    /\ Len(received[Emitter]) = MaxFrames
    /\ packet_queue = <<>>
    /\ \A i \in 1..MaxFrames : Holds(received[Emitter], i)

\* C36: no step of clear_packets or start_capture changes the fan-out
\* queue, and the records that are on the queue when such a call returns
\* are emitted to the live view afterwards, in the history or not.
C36_QueueSurvivesClearAndStart ==
    /\ [][(clear_packets(Handler) \/ start_capture(Handler))
            => UNCHANGED packet_queue]_vars
    /\ \A n \in 1..MaxFrames :
          (ev.call \in {"clear", "start"} /\ Holds(packet_queue, n))
              ~> Holds(received[Emitter], n)

\* C37: a step of stop_capture writes no field of the session but
\* is_capturing, which it can only make false: the history, packet_count,
\* interface and filter are what they were, and so are the fan-out queue
\* and capture_thread.
C37_StopChangesOnlyFlag ==
    [][\A c \in Callers :
          stop_capture(c)
              => /\ UNCHANGED <<packets, packet_count, interface, filter,
                                packet_queue, capture_thread>>
                 /\ is_capturing' => is_capturing]_vars

\* stop_capture has returned on a capture that had stored records: they
\* and the counter are still there
C37_Witness ==
    /\ ev.call = "stop"
    /\ ~is_capturing
    /\ Quiescent
    /\ Len(packets) = Capacity
    /\ packet_count = MaxFrames
    /\ interface = "eth0"

\* C38: a get_packet_stats() call on a non-empty history, with no delivery
\* in progress, returns total_packets equal to the size of the history and
\* a protocol table whose keys are distinct and whose counts add up to
\* total_packets: every record is counted under one protocol key.
C38_ProtocolCountsSumToTotal ==
    (ev.call = "stats" /\ packets # <<>>)
        => /\ ev.result.total_packets = Len(packets)
           /\ Cardinality(DictKeys(ev.result.protocols))
                 = Len(ev.result.protocols)
           /\ SumCounts(ev.result.protocols) = ev.result.total_packets

\* stats of a full history with records of several protocols, one of them
\* counted more than once
C38_Witness ==
    /\ ev.call = "stats"
    /\ Len(packets) = MaxHistory
    /\ ev.result.total_packets = MaxHistory
    /\ Len(ev.result.protocols) > 1
    /\ Len(ev.result.protocols) < MaxHistory

====
